---- MODULE Spec2Model ----
(***************************************************************************)
(* Model of the SUPERB ASR training script (example/superb_asr/train.py)   *)
(* and of the class-balanced batch sampler                                  *)
(* (s3prl/sampler/balanced_weighted_sampler.py).                            *)
(*                                                                         *)
(* Two specifications share the variables:                                  *)
(*   Spec         the training process: launch, restore, the train loop     *)
(*                with its log / eval / save cadences, process termination  *)
(*                at any point and relaunch on the same save_to directory;  *)
(*   SamplerSpec  BalancedWeightedSampler objects under set_epoch,          *)
(*                iteration and len calls.                                  *)
(***************************************************************************)
EXTENDS Integers, Sequences, FiniteSets, TLC

VARIABLES
    \* ---- train.py: the process ----
    pc,             \* position of the process in main()
    run,            \* number of launches of the script so far (history)
    log_step,       \* args.log_step
    eval_step,      \* args.eval_step
    save_step,      \* args.save_step
    trainLen,       \* len(train_dataloader): batches per pass
    validLen,       \* len(valid_dataloader)
    taskCkpt,       \* save_to / "task.ckpt"
    optCkpt,        \* save_to / "optimizer.ckpt"
    task,           \* the task object of the running process
    optimizer,      \* the optimizer object of the running process
    global_step,    \* pbar.n, copied into global_step at each batch
    pos,            \* batches of the current pass already pulled
    batch_results,  \* the list batch_results
    grad,           \* the .grad of the task parameters
    lastWarn,       \* global_step of the last "Grad norm is NaN" warning
    validated,      \* valid batches drained by the last validation pass
    before,         \* history: state at the moment the current batch was pulled
    fetched,        \* history: batches pulled by this launch
    saveSteps,      \* history: values of global_step at which task.ckpt was written
    resumedFrom,    \* history: the task.ckpt record found at launch
    reduced,        \* history: the results handed to train_reduction, in order
    sampler_epoch,  \* the epoch of train_sampler
    passEpochs,     \* history: the epoch of train_sampler at each pass start
    mode,           \* task.training: "train" or "eval"
    valid_results,  \* the list valid_results of the last validation pass
    exit,           \* how the last process ended: "error" or "killed"
    events,         \* history: what the current training step did, in order
    gradFrom,       \* history: the steps whose backward() filled grad
    \* ---- balanced_weighted_sampler.py ----
    dataset,        \* the labels of the dataset, in index order
    batch_size,     \* self.batch_size
    duplicate,      \* self.duplicate
    seed,           \* self.seed
    mult,           \* the multiplier of the generator algorithm
    weights,        \* self.weights, per sampler object
    epoch,          \* self.epoch, per sampler object
    requested,      \* history: argument of the last set_epoch call (0 if none)
    iterated,       \* whether the object has been iterated
    drawn,          \* the list `indices` of the last iteration
    out,            \* the batches yielded by the last iteration
    outEpoch,       \* history: `requested` when the last iteration ran
    lenDone,        \* whether len() has been called
    length,         \* the result of the last len() call
    \* ---- the distributed batch sampler wrapper ----
    inner,          \* the batch sequence of the wrapped batch sampler
    num_replicas,   \* num_replicas of the wrappers
    yielded,        \* per rank: the batches the wrapper of that rank yielded
    shardDone       \* per rank: whether that wrapper has been iterated

trainVars ==
    << pc, run, log_step, eval_step, save_step, trainLen, validLen, taskCkpt,
       optCkpt, task, optimizer, global_step, pos, batch_results, grad,
       lastWarn, validated, before, fetched, saveSteps, resumedFrom, reduced,
       sampler_epoch, passEpochs, mode, valid_results, exit, events,
       gradFrom >>

samplerVars ==
    << dataset, batch_size, duplicate, seed, mult, weights, epoch, requested,
       iterated, drawn, out, outEpoch, lenDone, length >>

shardVars == << inner, num_replicas, yielded, shardDone >>

vars == << trainVars, samplerVars, shardVars >>

(***************************************************************************)
(* Bounds of the model.                                                    *)
(***************************************************************************)
MaxStep == 2        \* batches pulled per launch
MaxRuns == 2        \* launches of the script
MaxCadence == 2     \* largest log_step / eval_step / save_step
MaxTrainLen == 2    \* largest number of batches per pass
MaxValidLen == 1    \* largest number of validation batches
total_steps == 1    \* args.total_steps, fewer than the batches pulled

(***************************************************************************)
(* train.py                                                                *)
(***************************************************************************)

\* A file that does not exist (is_file() is False).
NoFile ==
    [exists |-> FALSE, corrupt |-> FALSE, params |-> 0, state |-> 0,
     step |-> 0, run |-> 0]

\* No object: the memory of a process that is not running.
NoTask == [origin |-> "none", params |-> 0]
NoOptimizer == [origin |-> "none", bound |-> "none", state |-> 0]
NoSnapshot == [step |-> 0, params |-> 0, state |-> 0]

\* problem.Task(model, ...) on a newly built model: no update applied yet.
FreshTask == [origin |-> "fresh", params |-> 0]

\* Object.load_checkpoint(latest_task): the parameters stored in the file.
load_checkpoint(file) == [origin |-> "restored", params |-> file.params]

\* optim.Adam(task.parameters(), lr=1e-3): bound to the given task, no state.
Adam(t) == [origin |-> "fresh", bound |-> t.origin, state |-> 0]

\* optimizer.load_state_dict(torch.load(...)): the binding to the parameters
\* is kept, the state is replaced by the stored one.
load_state_dict(opt, file) ==
    [origin |-> "restored", bound |-> opt.bound, state |-> file.state]

\* The cadence test used for logging, validation and checkpointing.
Fires(step, every) == (step + 1) % every = 0

\* math.isnan(grad_norm) after clip_grad_norm_.
IsNaN(g) == g = "nan"

\* loss.backward() accumulates into the existing gradients.
Backward(g, new) == IF g = "nan" THEN "nan" ELSE new

\* for batch in valid_dataloader: valid_results.append(...): the batches
\* k..n of the validation source, appended in order.
RECURSIVE ValidLoop(_, _, _)
ValidLoop(k, n, results) ==
    IF k > n THEN results ELSE ValidLoop(k + 1, n, Append(results, k))

Running == pc # "stopped"

\* python train.py ... : a new process; nothing of the previous one survives
\* but the files under save_to.
Launch ==
    /\ UNCHANGED << samplerVars, shardVars >>
    /\ exit' = "none"
    /\ UNCHANGED << reduced, sampler_epoch, passEpochs,
                    mode, valid_results, events, gradFrom >>
    /\ pc = "stopped"
    /\ run < MaxRuns
    /\ run' = run + 1
    /\ pc' = "restore_task"
    /\ UNCHANGED << log_step, eval_step, save_step, trainLen, validLen,
                    taskCkpt, optCkpt, task, optimizer, global_step, pos,
                    batch_results, grad, lastWarn, validated, before, fetched,
                    saveSteps, resumedFrom >>

\* A restore that builds a new task when task.ckpt cannot be deserialized.
RestoreTaskFallback ==
    /\ UNCHANGED << samplerVars, shardVars >>
    /\ pc = "restore_task"
    /\ task' = IF taskCkpt.exists /\ ~taskCkpt.corrupt
               THEN load_checkpoint(taskCkpt) ELSE FreshTask
    /\ resumedFrom' = taskCkpt
    /\ mode' = "train"
    /\ pc' = "restore_optimizer"
    /\ UNCHANGED << run, log_step, eval_step, save_step, trainLen, validLen,
                    taskCkpt, optCkpt, optimizer, global_step, pos,
                    batch_results, grad, lastWarn, validated, before, fetched,
                    saveSteps, reduced, sampler_epoch, passEpochs,
                    valid_results, exit, events, gradFrom >>

\* latest_task.is_file() ? Object.load_checkpoint : build a new task.
\* Object.load_checkpoint raises on a file it cannot deserialize; nothing
\* in main() catches it, so the process ends with the error.
RestoreTask ==
    /\ UNCHANGED << samplerVars, shardVars >>
    /\ pc = "restore_task"
    /\ IF taskCkpt.exists /\ taskCkpt.corrupt
       THEN /\ pc' = "stopped"
            /\ exit' = "error"
            /\ UNCHANGED << task, resumedFrom, mode >>
       ELSE /\ task' = IF taskCkpt.exists THEN load_checkpoint(taskCkpt)
                       ELSE FreshTask
            /\ resumedFrom' = taskCkpt
            /\ mode' = "train"
            /\ pc' = "restore_optimizer"
            /\ UNCHANGED exit
    /\ UNCHANGED << run, log_step, eval_step, save_step, trainLen, validLen,
                    taskCkpt, optCkpt, optimizer, global_step, pos,
                    batch_results, grad, lastWarn, validated, before, fetched,
                    saveSteps, reduced, sampler_epoch, passEpochs,
                    valid_results, events, gradFrom >>

\* A restore that takes optimizer.ckpt only when task.ckpt was taken too.
RestoreOptimizerCoupled ==
    /\ UNCHANGED << samplerVars, shardVars >>
    /\ UNCHANGED << reduced, sampler_epoch, passEpochs, mode,
                    valid_results, exit, events, gradFrom >>
    /\ pc = "restore_optimizer"
    /\ optimizer' = IF optCkpt.exists /\ task.origin = "restored"
                    THEN load_state_dict(Adam(task), optCkpt)
                    ELSE Adam(task)
    /\ global_step' = 0
    /\ pc' = "pass"
    /\ UNCHANGED << run, log_step, eval_step, save_step, trainLen, validLen,
                    taskCkpt, optCkpt, task, pos, batch_results, grad,
                    lastWarn, validated, before, fetched, saveSteps,
                    resumedFrom >>

\* optimizer = Adam(task.parameters()); load_state_dict if optimizer.ckpt is
\* a file, else a second Adam(task.parameters()); then pbar = tqdm(...).
RestoreOptimizer ==
    /\ UNCHANGED << samplerVars, shardVars >>
    /\ UNCHANGED << reduced, sampler_epoch, passEpochs, mode,
                    valid_results, exit, events, gradFrom >>
    /\ pc = "restore_optimizer"
    /\ optimizer' = IF optCkpt.exists
                    THEN load_state_dict(Adam(task), optCkpt)
                    ELSE Adam(task)
    /\ global_step' = 0
    /\ pc' = "pass"
    /\ UNCHANGED << run, log_step, eval_step, save_step, trainLen, validLen,
                    taskCkpt, optCkpt, task, pos, batch_results, grad,
                    lastWarn, validated, before, fetched, saveSteps,
                    resumedFrom >>

\* A pass that creates its own progress bar, restarting the count.
StartPassNewBar ==
    /\ UNCHANGED << samplerVars, shardVars >>
    /\ passEpochs' = Append(passEpochs, sampler_epoch)
    /\ UNCHANGED << reduced, sampler_epoch, mode,
                    valid_results, exit, events, gradFrom >>
    /\ pc = "pass"
    /\ batch_results' = << >>
    /\ pos' = 0
    /\ global_step' = 0
    /\ pc' = "fetch"
    /\ UNCHANGED << run, log_step, eval_step, save_step, trainLen, validLen,
                    taskCkpt, optCkpt, task, optimizer, grad, lastWarn,
                    validated, before, fetched, saveSteps, resumedFrom >>

\* while True: batch_results = []; a new iterator over train_dataloader.
StartPass ==
    /\ UNCHANGED << samplerVars, shardVars >>
    /\ passEpochs' = Append(passEpochs, sampler_epoch)
    /\ UNCHANGED << reduced, sampler_epoch, mode,
                    valid_results, exit, events, gradFrom >>
    /\ pc = "pass"
    /\ batch_results' = << >>
    /\ pos' = 0
    /\ pc' = "fetch"
    /\ UNCHANGED << run, log_step, eval_step, save_step, trainLen, validLen,
                    taskCkpt, optCkpt, task, optimizer, global_step, grad,
                    lastWarn, validated, before, fetched, saveSteps,
                    resumedFrom >>

\* A loop that leaves for the test pass once total_steps have been done.
FetchUntilTotal ==
    /\ UNCHANGED << samplerVars, shardVars >>
    /\ events' = IF pos < trainLen THEN << >> ELSE events
    /\ UNCHANGED << reduced, sampler_epoch, passEpochs,
                    mode, valid_results, exit, gradFrom >>
    /\ pc = "fetch"
    /\ IF global_step >= total_steps
       THEN /\ pc' = "test"
            /\ UNCHANGED << global_step, fetched, pos, before >>
       ELSE IF pos < trainLen
       THEN /\ global_step < MaxStep
            /\ before' = [step |-> global_step, params |-> task.params,
                          state |-> optimizer.state]
            /\ global_step' = global_step + 1
            /\ fetched' = fetched + 1
            /\ pos' = pos + 1
            /\ pc' = "zero_grad"
       ELSE /\ pc' = "pass"
            /\ UNCHANGED << global_step, fetched, pos, before >>
    /\ UNCHANGED << run, log_step, eval_step, save_step, trainLen, validLen,
                    taskCkpt, optCkpt, task, optimizer, batch_results, grad,
                    lastWarn, validated, saveSteps, resumedFrom >>

\* for batch in train_dataloader: pbar.update(1); global_step = pbar.n
\* -- or the pass is exhausted and the while loop starts the next one.
\* pbar = tqdm(total=args.total_steps) only draws the bar: total_steps is
\* read nowhere else.
Fetch ==
    /\ UNCHANGED << samplerVars, shardVars >>
    /\ events' = IF pos < trainLen THEN << >> ELSE events
    /\ UNCHANGED << reduced, sampler_epoch, passEpochs,
                    mode, valid_results, exit, gradFrom >>
    /\ pc = "fetch"
    /\ IF pos < trainLen
       THEN /\ global_step < MaxStep
            /\ before' = [step |-> global_step, params |-> task.params,
                          state |-> optimizer.state]
            /\ global_step' = global_step + 1
            /\ fetched' = fetched + 1
            /\ pos' = pos + 1
            /\ pc' = "zero_grad"
       ELSE /\ pc' = "pass"
            /\ UNCHANGED << global_step, fetched, pos, before >>
    /\ UNCHANGED << run, log_step, eval_step, save_step, trainLen, validLen,
                    taskCkpt, optCkpt, task, optimizer, batch_results, grad,
                    lastWarn, validated, saveSteps, resumedFrom >>

\* A training step that does not reset the gradients.
ZeroGradMissing ==
    /\ UNCHANGED << samplerVars, shardVars >>
    /\ UNCHANGED << reduced, sampler_epoch, passEpochs,
                    mode, valid_results, exit, events, gradFrom >>
    /\ pc = "zero_grad"
    /\ pc' = "train_step"
    /\ UNCHANGED << run, log_step, eval_step, save_step, trainLen, validLen,
                    taskCkpt, optCkpt, task, optimizer, global_step, pos,
                    batch_results, grad, lastWarn, validated, before, fetched,
                    saveSteps, resumedFrom >>

\* optimizer.zero_grad()
ZeroGrad ==
    /\ UNCHANGED << samplerVars, shardVars >>
    /\ gradFrom' = {}
    /\ UNCHANGED << reduced, sampler_epoch, passEpochs,
                    mode, valid_results, exit, events >>
    /\ pc = "zero_grad"
    /\ grad' = "none"
    /\ pc' = "train_step"
    /\ UNCHANGED << run, log_step, eval_step, save_step, trainLen, validLen,
                    taskCkpt, optCkpt, task, optimizer, global_step, pos,
                    batch_results, lastWarn, validated, before, fetched,
                    saveSteps, resumedFrom >>

\* A training step without task.train(): the task keeps the mode it is in.
TrainStepKeepsMode ==
    /\ UNCHANGED << samplerVars, shardVars >>
    /\ gradFrom' = gradFrom \cup {global_step}
    /\ events' = Append(events, "backward")
    /\ UNCHANGED << reduced, sampler_epoch, passEpochs, mode, valid_results,
                    exit >>
    /\ pc = "train_step"
    /\ \E g \in {"finite", "nan"} : grad' = Backward(grad, g)
    /\ pc' = "update"
    /\ UNCHANGED << run, log_step, eval_step, save_step, trainLen, validLen,
                    taskCkpt, optCkpt, task, optimizer, global_step, pos,
                    batch_results, lastWarn, validated, before, fetched,
                    saveSteps, resumedFrom >>

\* task.train(); result = task.train_step(**batch); result.loss.backward()
\* The batch decides whether the gradient is finite.
TrainStep ==
    /\ UNCHANGED << samplerVars, shardVars >>
    /\ mode' = "train"
    /\ gradFrom' = gradFrom \cup {global_step}
    /\ events' = Append(events, "backward")
    /\ UNCHANGED << reduced, sampler_epoch, passEpochs, valid_results, exit >>
    /\ pc = "train_step"
    /\ \E g \in {"finite", "nan"} : grad' = Backward(grad, g)
    /\ pc' = "update"
    /\ UNCHANGED << run, log_step, eval_step, save_step, trainLen, validLen,
                    taskCkpt, optCkpt, task, optimizer, global_step, pos,
                    batch_results, lastWarn, validated, before, fetched,
                    saveSteps, resumedFrom >>

\* optimizer.step(): one update of the parameters and of the optimizer state.
OptimizerStep ==
    /\ task' = [task EXCEPT !.params = @ + 1]
    /\ optimizer' = [optimizer EXCEPT !.state = @ + 1]

\* An update that warns about a NaN norm but steps the optimizer anyway.
UpdateUnguarded ==
    /\ UNCHANGED << samplerVars, shardVars >>
    /\ events' = Append(events, "update")
    /\ UNCHANGED << reduced, sampler_epoch, passEpochs,
                    mode, valid_results, exit, gradFrom >>
    /\ pc = "update"
    /\ lastWarn' = IF IsNaN(grad) THEN global_step ELSE lastWarn
    /\ OptimizerStep
    /\ pc' = "cache"
    /\ UNCHANGED << run, log_step, eval_step, save_step, trainLen, validLen,
                    taskCkpt, optCkpt, global_step, pos, batch_results, grad,
                    validated, before, fetched, saveSteps, resumedFrom >>

\* grad_norm = clip_grad_norm_(...); NaN: warn, else optimizer.step()
Update ==
    /\ UNCHANGED << samplerVars, shardVars >>
    /\ events' = Append(events, IF IsNaN(grad) THEN "skip" ELSE "update")
    /\ UNCHANGED << reduced, sampler_epoch, passEpochs,
                    mode, valid_results, exit, gradFrom >>
    /\ pc = "update"
    /\ IF IsNaN(grad)
       THEN /\ lastWarn' = global_step
            /\ UNCHANGED << task, optimizer >>
       ELSE /\ OptimizerStep
            /\ UNCHANGED lastWarn
    /\ pc' = "cache"
    /\ UNCHANGED << run, log_step, eval_step, save_step, trainLen, validLen,
                    taskCkpt, optCkpt, global_step, pos, batch_results, grad,
                    validated, before, fetched, saveSteps, resumedFrom >>

\* batch_results.append(result.cacheable())
Cache ==
    /\ UNCHANGED << samplerVars, shardVars >>
    /\ UNCHANGED << reduced, sampler_epoch, passEpochs, mode,
                    valid_results, exit, events, gradFrom >>
    /\ pc = "cache"
    /\ batch_results' = Append(batch_results, global_step)
    /\ pc' = "log"
    /\ UNCHANGED << run, log_step, eval_step, save_step, trainLen, validLen,
                    taskCkpt, optCkpt, task, optimizer, global_step, pos, grad,
                    lastWarn, validated, before, fetched, saveSteps,
                    resumedFrom >>

\* A step that goes from the log cadence straight to the save cadence.
LogThenSave ==
    /\ UNCHANGED << samplerVars, shardVars >>
    /\ reduced' = IF Fires(global_step, log_step)
                  THEN reduced \o batch_results ELSE reduced
    /\ events' = IF Fires(global_step, log_step)
                 THEN Append(events, "log") ELSE events
    /\ UNCHANGED << sampler_epoch, passEpochs, mode,
                    valid_results, exit, gradFrom >>
    /\ pc = "log"
    /\ batch_results' = IF Fires(global_step, log_step) THEN << >>
                        ELSE batch_results
    /\ pc' = "save"
    /\ UNCHANGED << run, log_step, eval_step, save_step, trainLen, validLen,
                    taskCkpt, optCkpt, task, optimizer, global_step, pos, grad,
                    lastWarn, validated, before, fetched, saveSteps,
                    resumedFrom >>

\* if (global_step + 1) % args.log_step == 0: reduce, log, batch_results = []
Log ==
    /\ UNCHANGED << samplerVars, shardVars >>
    /\ reduced' = IF Fires(global_step, log_step)
                  THEN reduced \o batch_results ELSE reduced
    /\ events' = IF Fires(global_step, log_step)
                 THEN Append(events, "log") ELSE events
    /\ UNCHANGED << sampler_epoch, passEpochs, mode,
                    valid_results, exit, gradFrom >>
    /\ pc = "log"
    /\ batch_results' = IF Fires(global_step, log_step) THEN << >>
                        ELSE batch_results
    /\ pc' = "eval"
    /\ UNCHANGED << run, log_step, eval_step, save_step, trainLen, validLen,
                    taskCkpt, optCkpt, task, optimizer, global_step, pos, grad,
                    lastWarn, validated, before, fetched, saveSteps,
                    resumedFrom >>

\* if (global_step + 1) % args.eval_step == 0: drain valid_dataloader under
\* no_grad, reduce and log.
Eval ==
    /\ UNCHANGED << samplerVars, shardVars >>
    /\ valid_results' = IF Fires(global_step, eval_step)
                        THEN ValidLoop(1, validLen, << >>)
                        ELSE valid_results
    /\ mode' = IF Fires(global_step, eval_step) THEN "eval" ELSE mode
    /\ events' = IF Fires(global_step, eval_step)
                 THEN Append(events, "eval") ELSE events
    /\ UNCHANGED << reduced, sampler_epoch, passEpochs, exit, gradFrom >>
    /\ pc = "eval"
    /\ validated' = IF Fires(global_step, eval_step) THEN validLen
                    ELSE validated
    /\ pc' = "save"
    /\ UNCHANGED << run, log_step, eval_step, save_step, trainLen, validLen,
                    taskCkpt, optCkpt, task, optimizer, global_step, pos,
                    batch_results, grad, lastWarn, before, fetched, saveSteps,
                    resumedFrom >>

\* if (global_step + 1) % args.save_step == 0:
\*     task.save_checkpoint(save_to / "task.ckpt")
SaveTask ==
    /\ UNCHANGED << samplerVars, shardVars >>
    /\ events' = IF Fires(global_step, save_step)
                 THEN Append(events, "save_task") ELSE events
    /\ UNCHANGED << reduced, sampler_epoch, passEpochs,
                    mode, valid_results, exit, gradFrom >>
    /\ pc = "save"
    /\ IF Fires(global_step, save_step)
       THEN /\ taskCkpt' = [exists |-> TRUE, corrupt |-> FALSE,
                            params |-> task.params,
                            state |-> 0, step |-> global_step, run |-> run]
            /\ saveSteps' = saveSteps \cup {global_step}
            /\ pc' = "save_optimizer"
       ELSE /\ pc' = "fetch"
            /\ UNCHANGED << taskCkpt, saveSteps >>
    /\ UNCHANGED << run, log_step, eval_step, save_step, trainLen, validLen,
                    optCkpt, task, optimizer, global_step, pos, batch_results,
                    grad, lastWarn, validated, before, fetched, resumedFrom >>

\*     torch.save(optimizer.state_dict(), save_to / "optimizer.ckpt")
SaveOptimizer ==
    /\ UNCHANGED << samplerVars, shardVars >>
    /\ events' = Append(events, "save_optimizer")
    /\ UNCHANGED << reduced, sampler_epoch, passEpochs,
                    mode, valid_results, exit, gradFrom >>
    /\ pc = "save_optimizer"
    /\ optCkpt' = [exists |-> TRUE, corrupt |-> FALSE, params |-> 0,
                   state |-> optimizer.state,
                   step |-> global_step, run |-> run]
    /\ pc' = "fetch"
    /\ UNCHANGED << run, log_step, eval_step, save_step, trainLen, validLen,
                    taskCkpt, task, optimizer, global_step, pos, batch_results,
                    grad, lastWarn, validated, before, fetched, saveSteps,
                    resumedFrom >>

\* The process is terminated (the script has no other way to stop): its
\* memory is gone, the files stay.
Kill ==
    /\ UNCHANGED << samplerVars, shardVars >>
    /\ reduced' = << >>
    /\ sampler_epoch' = 0
    /\ passEpochs' = << >>
    /\ mode' = "none"
    /\ valid_results' = << >>
    /\ exit' = "killed"
    /\ events' = << >>
    /\ gradFrom' = {}
    /\ Running
    /\ pc' = "stopped"
    /\ task' = NoTask
    /\ optimizer' = NoOptimizer
    /\ global_step' = 0
    /\ pos' = 0
    /\ batch_results' = << >>
    /\ grad' = "none"
    /\ lastWarn' = 0
    /\ validated' = 0
    /\ before' = NoSnapshot
    /\ fetched' = 0
    /\ saveSteps' = {}
    /\ resumedFrom' = NoFile
    /\ UNCHANGED << run, log_step, eval_step, save_step, trainLen, validLen,
                    taskCkpt, optCkpt >>

\* save_to is a directory the operator owns: between two launches a
\* checkpoint file may be removed from it.
RemoveTaskCkpt ==
    /\ UNCHANGED << samplerVars, shardVars >>
    /\ UNCHANGED << reduced, sampler_epoch, passEpochs, mode,
                    valid_results, exit, events, gradFrom >>
    /\ pc = "stopped"
    /\ taskCkpt.exists
    /\ taskCkpt' = NoFile
    /\ UNCHANGED << pc, run, log_step, eval_step, save_step, trainLen,
                    validLen, optCkpt, task, optimizer, global_step, pos,
                    batch_results, grad, lastWarn, validated, before, fetched,
                    saveSteps, resumedFrom >>

\* task.ckpt is read back by a later process; between two launches its
\* content may have become unreadable.
DamageTaskCkpt ==
    /\ UNCHANGED << samplerVars, shardVars >>
    /\ pc = "stopped"
    /\ taskCkpt.exists
    /\ ~taskCkpt.corrupt
    /\ taskCkpt' = [taskCkpt EXCEPT !.corrupt = TRUE]
    /\ UNCHANGED << pc, run, log_step, eval_step, save_step, trainLen,
                    validLen, optCkpt, task, optimizer, global_step, pos,
                    batch_results, grad, lastWarn, validated, before, fetched,
                    saveSteps, resumedFrom, reduced, sampler_epoch,
                    passEpochs, mode, valid_results, exit, events, gradFrom >>

TrainInit ==
    /\ pc = "stopped"
    /\ run = 0
    /\ log_step \in 1..MaxCadence
    /\ eval_step \in 1..MaxCadence
    /\ save_step \in 1..MaxCadence
    /\ trainLen \in 1..MaxTrainLen
    /\ validLen \in 1..MaxValidLen
    /\ taskCkpt = NoFile
    /\ optCkpt = NoFile
    /\ task = NoTask
    /\ optimizer = NoOptimizer
    /\ global_step = 0
    /\ pos = 0
    /\ batch_results = << >>
    /\ grad = "none"
    /\ lastWarn = 0
    /\ validated = 0
    /\ before = NoSnapshot
    /\ fetched = 0
    /\ saveSteps = {}
    /\ resumedFrom = NoFile
    /\ reduced = << >>
    /\ sampler_epoch = 0
    /\ passEpochs = << >>
    /\ mode = "none"
    /\ valid_results = << >>
    /\ exit = "none"
    /\ events = << >>
    /\ gradFrom = {}

\* The sampler objects are not part of the training specification.
SamplerIdle ==
    /\ dataset = << >>
    /\ batch_size = 0
    /\ duplicate = 0
    /\ seed = 0
    /\ mult = 0
    /\ weights = << >>
    /\ epoch = << >>
    /\ requested = << >>
    /\ iterated = << >>
    /\ drawn = << >>
    /\ out = << >>
    /\ outEpoch = << >>
    /\ lenDone = << >>
    /\ length = << >>

\* The wrappers are not part of the training or the sampler specification.
ShardIdle ==
    /\ inner = << >>
    /\ num_replicas = 1
    /\ yielded = << >>
    /\ shardDone = << >>

Init == TrainInit /\ SamplerIdle /\ ShardIdle

Next ==
    \/ Launch
    \/ RestoreTask
    \/ RestoreOptimizer
    \/ StartPass
    \/ Fetch
    \/ ZeroGrad
    \/ TrainStep
    \/ Update
    \/ Cache
    \/ Log
    \/ Eval
    \/ SaveTask
    \/ SaveOptimizer
    \/ Kill
    \/ RemoveTaskCkpt
    \/ DamageTaskCkpt

Spec == Init /\ [][Next]_vars

(***************************************************************************)
(* balanced_weighted_sampler.py                                            *)
(***************************************************************************)
MaxN == 3           \* largest dataset
MaxDup == 2         \* largest duplicate
MaxBatch == 2       \* largest batch_size
MaxEpoch == 1       \* largest argument of set_epoch
MaxMult == 1        \* generator algorithms considered
GenModulus == 5     \* number of states of the generator

\* seed: int = 12345678
DefaultSeed == 12345678

Seeds == {DefaultSeed, 42}
Classes == {"A", "B"}

\* The object under test and a second object built from the same arguments,
\* which is only given its epoch and iterated once.
Samplers == {"main", "fresh"}

Datasets == UNION {[1..n -> Classes] : n \in 1..MaxN}

\* class2weight[label] after the first loop of get_weights: a Counter.
Count(ds, label) == Cardinality({i \in 1..Len(ds) : ds[i] = label})

\* Weights that give every item the share of its class instead of its inverse.
get_weights_share(ds) ==
    [i \in 1..Len(ds) |-> [num |-> Count(ds, ds[i]), den |-> Len(ds)]]

\* weights.append(len(dataset) / class2weight[item["label"]]) for each item:
\* the quotient is kept exact, as numerator and denominator.
get_weights(ds) ==
    [i \in 1..Len(ds) |-> [num |-> Len(ds), den |-> Count(ds, ds[i])]]

\* ---- torch.Generator: a deterministic stream started by manual_seed ----
manual_seed(k) == k % GenModulus

NextState(x) == (mult * x + 1) % GenModulus

RECURSIVE Stream(_, _)
Stream(x, m) ==
    IF m = 0 THEN << >>
    ELSE LET y == NextState(x) IN << y >> \o Stream(y, m - 1)

\* ---- WeightedRandomSampler / torch.multinomial with replacement ----
RECURSIVE DenProduct(_)
DenProduct(w) == IF w = << >> THEN 1 ELSE Head(w).den * DenProduct(Tail(w))

\* The weights on a common integer scale.
Scaled(w) == [i \in 1..Len(w) |-> w[i].num * (DenProduct(w) \div w[i].den)]

RECURSIVE Sum(_)
Sum(q) == IF q = << >> THEN 0 ELSE Head(q) + Sum(Tail(q))

\* The index whose slice of the cumulative weights cum holds the uniform
\* value u of a generator with GenModulus values.
Pick(cum, u) ==
    LET t == (u * cum[Len(cum)]) \div GenModulus
    IN  (CHOOSE i \in 1..Len(cum) :
            /\ cum[i] > t
            /\ \A j \in 1..(i - 1) : cum[j] <= t) - 1

\* list(WeightedRandomSampler(weights, num_samples, generator=generator))
Draw(w, num_samples, g) ==
    LET sc == Scaled(w)
        cum == [i \in 1..Len(w) |-> Sum(SubSeq(sc, 1, i))]
        us == Stream(g, num_samples)
    IN  [j \in 1..num_samples |-> Pick(cum, us[j])]

\* ---- __iter__ ----
InBatch(batch, x) == \E i \in 1..Len(batch) : batch[i] = x

\* A loop that leaves out an index the batch already holds.
RECURSIVE AccumulateDistinct(_, _, _, _)
AccumulateDistinct(indices, batch, emitted, size) ==
    IF indices = << >> THEN emitted
    ELSE LET b == IF InBatch(batch, Head(indices)) THEN batch
                  ELSE Append(batch, Head(indices))
         IN  IF Len(b) = size
             THEN AccumulateDistinct(Tail(indices), << >>, Append(emitted, b), size)
             ELSE AccumulateDistinct(Tail(indices), b, emitted, size)

\* A loop that also yields the last, shorter batch.
RECURSIVE AccumulateKeepLast(_, _, _, _)
AccumulateKeepLast(indices, batch, emitted, size) ==
    IF indices = << >>
    THEN IF batch = << >> THEN emitted ELSE Append(emitted, batch)
    ELSE LET b == Append(batch, Head(indices))
         IN  IF Len(b) = size
             THEN AccumulateKeepLast(Tail(indices), << >>, Append(emitted, b), size)
             ELSE AccumulateKeepLast(Tail(indices), b, emitted, size)

\* for indice in indices: batch.append(indice);
\*     if len(batch) == self.batch_size: yield batch; batch = []
RECURSIVE Accumulate(_, _, _, _)
Accumulate(indices, batch, emitted, size) ==
    IF indices = << >> THEN emitted
    ELSE LET b == Append(batch, Head(indices))
         IN  IF Len(b) = size
             THEN Accumulate(Tail(indices), << >>, Append(emitted, b), size)
             ELSE Accumulate(Tail(indices), b, emitted, size)

\* The list `indices` of an iteration of sampler s: a new generator seeded
\* with self.epoch + self.seed, len(self.weights) * self.duplicate draws.
Indices(s) ==
    Draw(weights[s], Len(weights[s]) * duplicate, manual_seed(epoch[s] + seed))

\* The batches an iteration of sampler s yields.
Batches(s) == Accumulate(Indices(s), << >>, << >>, batch_size)

\* The second object stays as built until its one iteration.
Usable(s) == s = "fresh" => ~iterated[s]

\* A set_epoch written `if epoch: self.epoch = epoch`.
set_epoch_truthy(s, e) ==
    /\ UNCHANGED << trainVars, shardVars >>
    /\ Usable(s)
    /\ epoch' = [epoch EXCEPT ![s] = IF e # 0 THEN e ELSE @]
    /\ requested' = [requested EXCEPT ![s] = e]
    /\ UNCHANGED << dataset, batch_size, duplicate, seed, mult, weights,
                    iterated, drawn, out, outEpoch, lenDone, length >>

\* def set_epoch(self, epoch): self.epoch = epoch
set_epoch(s, e) ==
    /\ UNCHANGED << trainVars, shardVars >>
    /\ Usable(s)
    /\ epoch' = [epoch EXCEPT ![s] = e]
    /\ requested' = [requested EXCEPT ![s] = e]
    /\ UNCHANGED << dataset, batch_size, duplicate, seed, mult, weights,
                    iterated, drawn, out, outEpoch, lenDone, length >>

\* list(iter(sampler)): one complete iteration.
Iterate(s) ==
    /\ UNCHANGED << trainVars, shardVars >>
    /\ Usable(s)
    /\ drawn' = [drawn EXCEPT ![s] = Indices(s)]
    /\ out' = [out EXCEPT ![s] = Batches(s)]
    /\ iterated' = [iterated EXCEPT ![s] = TRUE]
    /\ outEpoch' = [outEpoch EXCEPT ![s] = requested[s]]
    /\ UNCHANGED << dataset, batch_size, duplicate, seed, mult, weights,
                    epoch, requested, lenDone, length >>

\* def __len__(self): return len(list(iter(self)))
Length(s) ==
    /\ UNCHANGED << trainVars, shardVars >>
    /\ s = "main"
    /\ length' = [length EXCEPT ![s] = Len(Batches(s))]
    /\ lenDone' = [lenDone EXCEPT ![s] = TRUE]
    /\ UNCHANGED << dataset, batch_size, duplicate, seed, mult, weights,
                    epoch, requested, iterated, drawn, out, outEpoch >>

\* BalancedWeightedSampler(dataset, batch_size, duplicate=..., seed=...)
SamplerInit ==
    /\ dataset \in Datasets
    /\ batch_size \in 0..MaxBatch
    /\ duplicate \in 1..MaxDup
    /\ seed \in Seeds
    /\ mult \in 1..MaxMult
    /\ weights = [s \in Samplers |-> get_weights(dataset)]
    /\ epoch = [s \in Samplers |-> 0]
    /\ requested = [s \in Samplers |-> 0]
    /\ iterated = [s \in Samplers |-> FALSE]
    /\ drawn = [s \in Samplers |-> << >>]
    /\ out = [s \in Samplers |-> << >>]
    /\ outEpoch = [s \in Samplers |-> 0]
    /\ lenDone = [s \in Samplers |-> FALSE]
    /\ length = [s \in Samplers |-> 0]

\* The training process is not part of the sampler specification.
TrainIdle ==
    /\ pc = "stopped"
    /\ run = 0
    /\ log_step = 1
    /\ eval_step = 1
    /\ save_step = 1
    /\ trainLen = 1
    /\ validLen = 1
    /\ taskCkpt = NoFile
    /\ optCkpt = NoFile
    /\ task = NoTask
    /\ optimizer = NoOptimizer
    /\ global_step = 0
    /\ pos = 0
    /\ batch_results = << >>
    /\ grad = "none"
    /\ lastWarn = 0
    /\ validated = 0
    /\ before = NoSnapshot
    /\ fetched = 0
    /\ saveSteps = {}
    /\ resumedFrom = NoFile
    /\ reduced = << >>
    /\ sampler_epoch = 0
    /\ passEpochs = << >>
    /\ mode = "none"
    /\ valid_results = << >>
    /\ exit = "none"
    /\ events = << >>
    /\ gradFrom = {}

SamplerStart == SamplerInit /\ TrainIdle /\ ShardIdle

SamplerNext ==
    \/ \E s \in Samplers, e \in 0..MaxEpoch : set_epoch(s, e)
    \/ \E s \in Samplers : Iterate(s)
    \/ \E s \in Samplers : Length(s)

SamplerSpec == SamplerStart /\ [][SamplerNext]_vars

(***************************************************************************)
(* DistributedBatchSamplerWrapper (s3prl.sampler), as train.py uses it:    *)
(* DistributedBatchSamplerWrapper(sampler, num_replicas=1, rank=0).        *)
(***************************************************************************)
MaxInner == 3       \* longest batch sequence of the wrapped sampler
MaxReplicas == 3    \* largest num_replicas

\* The batches the wrapped sampler may yield (equal batches may recur).
InnerBatches == {<< 0, 1 >>, << 1, 1 >>}

InnerSequences == UNION {[1..n -> InnerBatches] : n \in 0..MaxInner}

Ranks == 0..(num_replicas - 1)

\* The batches of seq, whose first one is at position p, that are at a
\* position congruent to rank modulo replicas, in the order of seq.
RECURSIVE ShardFrom(_, _, _, _)
ShardFrom(seq, p, replicas, rank) ==
    IF seq = << >> THEN << >>
    ELSE (IF p % replicas = rank THEN << Head(seq) >> ELSE << >>)
             \o ShardFrom(Tail(seq), p + 1, replicas, rank)

\* A wrapper that counts the positions from 1.
ShardOneBased(seq, replicas, rank) == ShardFrom(seq, 1, replicas, rank)

\* Iteration of the wrapper: the whole sequence of the wrapped sampler is
\* enumerated, the batches at positions p with p mod num_replicas == rank
\* are yielded.
Shard(seq, replicas, rank) == ShardFrom(seq, 0, replicas, rank)

\* list(iter(wrapper)) for the wrapper of rank r.
IterateShard(r) ==
    /\ UNCHANGED << trainVars, samplerVars >>
    /\ ~shardDone[r]
    /\ yielded' = [yielded EXCEPT ![r] = Shard(inner, num_replicas, r)]
    /\ shardDone' = [shardDone EXCEPT ![r] = TRUE]
    /\ UNCHANGED << inner, num_replicas >>

\* One wrapper per rank around the same batch sampler.
ShardInit ==
    /\ inner \in InnerSequences
    /\ num_replicas \in 1..MaxReplicas
    /\ yielded = [r \in Ranks |-> << >>]
    /\ shardDone = [r \in Ranks |-> FALSE]

ShardStart == ShardInit /\ TrainIdle /\ SamplerIdle

ShardNext == \E r \in Ranks : IterateShard(r)

ShardSpec == ShardStart /\ [][ShardNext]_vars

(***************************************************************************)
(* Properties of the training process.                                     *)
(***************************************************************************)

\* The positions of main() inside the training loop.
LoopPcs ==
    {"pass", "fetch", "zero_grad", "train_step", "update", "cache", "log",
     "eval", "save", "save_optimizer"}

\* The positions of a training step after its update (or its skip).
AfterUpdate == {"cache", "log", "eval", "save", "save_optimizer"}

\* C1: for save_step k, once a training step is complete the checkpoint
\* writes of this launch happened exactly at the steps where the number of
\* processed batches is a positive multiple of k (k = 100: at 100 and 200).
C1_SavesAtMultiples ==
    pc = "fetch" =>
        saveSteps = {s \in 1..global_step : s % save_step = 0}

\* C2: whenever the process is down and task.ckpt and optimizer.ckpt both
\* exist, the two files were written at the same step of the same launch.
C2_CheckpointsSameStep ==
    (pc = "stopped" /\ taskCkpt.exists /\ optCkpt.exists) =>
        (taskCkpt.step = optCkpt.step /\ taskCkpt.run = optCkpt.run)

\* C3: a launch that found a task checkpoint saved at global step S counts
\* on from S: after it has pulled j batches its global step is S + j.
C3_ResumeContinuesCounter ==
    (pc \in LoopPcs /\ task.origin = "restored" /\ fetched >= 1) =>
        global_step = resumedFrom.step + fetched

\* C4: after the update of a training step, the global step is one more than
\* before the batch was pulled; if the gradient norm is NaN the parameters
\* and the optimizer state are those from before the step and the warning of
\* this step has been yielded, otherwise exactly one update was applied and
\* no warning was yielded for this step.
C4_NaNGuard ==
    pc \in AfterUpdate =>
        /\ global_step = before.step + 1
        /\ IF IsNaN(grad)
           THEN /\ task.params = before.params
                /\ optimizer.state = before.state
                /\ lastWarn = global_step
           ELSE /\ task.params = before.params + 1
                /\ optimizer.state = before.state + 1
                /\ lastWarn # global_step

\* C4 witness: a NaN step that came after an applied update left the
\* parameters alone.
C4_Witness ==
    /\ pc = "cache"
    /\ IsNaN(grad)
    /\ before.params >= 1
    /\ task.params = before.params
    /\ lastWarn = global_step

\* C5: inside one launch every step of the training loop leaves the global
\* step alone, except pulling a training batch, which adds exactly one
\* (also for the first batch of a later pass).
C5_StepCountsBatches ==
    [][ (pc \in LoopPcs /\ pc' \in LoopPcs) =>
            global_step' = IF pc = "fetch" /\ pc' = "zero_grad"
                           THEN global_step + 1
                           ELSE global_step ]_vars

\* C5 witness: the first batch of the second pass has been pulled and the
\* count carried over the pass boundary.
C5_Witness ==
    /\ pc = "zero_grad"
    /\ pos = 1
    /\ global_step = trainLen + 1

\* C6: right after the restore, the task is the restored one iff task.ckpt
\* exists, the optimizer state is the restored one iff optimizer.ckpt exists,
\* and throughout the loop the optimizer is bound to the task in use.
C6_IndependentRestore ==
    /\ (pc = "pass" /\ fetched = 0) =>
          /\ task = (IF taskCkpt.exists THEN load_checkpoint(taskCkpt)
                     ELSE FreshTask)
          /\ optimizer.origin = (IF optCkpt.exists THEN "restored" ELSE "fresh")
          /\ optimizer.state = (IF optCkpt.exists THEN optCkpt.state ELSE 0)
    /\ pc \in LoopPcs => (optimizer.bound = task.origin /\ task.origin # "none")

\* C6 witness: task.ckpt present, optimizer.ckpt missing: the loop starts
\* with the restored task and a fresh optimizer bound to it.
C6_Witness ==
    /\ pc = "pass"
    /\ fetched = 0
    /\ taskCkpt.exists
    /\ ~optCkpt.exists
    /\ task.origin = "restored"
    /\ optimizer.origin = "fresh"
    /\ optimizer.bound = "restored"

\* The other partial state: optimizer.ckpt present, task.ckpt missing.
C6_OptimizerOnly ==
    /\ pc = "pass"
    /\ fetched = 0
    /\ ~taskCkpt.exists
    /\ optCkpt.exists
    /\ task.origin = "fresh"
    /\ optimizer.origin = "restored"

(***************************************************************************)
(* Properties of BalancedWeightedSampler.                                  *)
(***************************************************************************)

RECURSIVE Flatten(_)
Flatten(bs) == IF bs = << >> THEN << >> ELSE Head(bs) \o Flatten(Tail(bs))

Repeats(batch) ==
    \E i, j \in 1..Len(batch) : i < j /\ batch[i] = batch[j]

\* Exact quotients: a / b as [num |-> a, den |-> b].
RatAdd(a, b) == [num |-> a.num * b.den + b.num * a.den, den |-> a.den * b.den]

RECURSIVE ClassTotal(_, _, _)
ClassTotal(w, ds, label) ==
    IF w = << >> THEN [num |-> 0, den |-> 1]
    ELSE IF Head(ds) = label
         THEN RatAdd(Head(w), ClassTotal(Tail(w), Tail(ds), label))
         ELSE ClassTotal(Tail(w), Tail(ds), label)

\* The number of indices one iteration draws.
NumDraws == Len(dataset) * duplicate

\* C7: no batch yielded by an iteration holds a dataset index twice.
C7_NoRepeatInBatch ==
    \A s \in Samplers :
        iterated[s] => \A k \in 1..Len(out[s]) : ~Repeats(out[s][k])

\* C7, amended: the batches of an iteration, one after the other, are the
\* drawn indices in draw order, each draw kept (an index drawn twice in a row
\* is twice in its batch), and every element is an index of the dataset.
C7_BatchesKeepEveryDraw ==
    \A s \in Samplers :
        iterated[s] =>
            /\ Flatten(out[s]) = SubSeq(drawn[s], 1, Len(Flatten(out[s])))
            /\ \A k \in 1..Len(out[s]) : \A j \in 1..Len(out[s][k]) :
                   out[s][k][j] \in 0..(Len(dataset) - 1)

\* C7 witness: a batch over a dataset of several items holds one index twice.
C7_Witness ==
    /\ Len(dataset) >= 2
    /\ iterated["main"]
    /\ \E k \in 1..Len(out["main"]) : Repeats(out["main"][k])

\* C8: with batch_size b >= 1 an iteration yields floor(n*d / b) batches of
\* exactly b indices of [0, n), batch k holding draws (k-1)*b+1 .. k*b of the
\* n*d draws, and len() returns that number of batches.
C8_BatchCountAndSize ==
    batch_size >= 1 =>
        \A s \in Samplers :
            /\ iterated[s] =>
                 /\ Len(drawn[s]) = NumDraws
                 /\ Len(out[s]) = NumDraws \div batch_size
                 /\ \A k \in 1..Len(out[s]) :
                        /\ Len(out[s][k]) = batch_size
                        /\ \A j \in 1..batch_size :
                               /\ out[s][k][j] = drawn[s][(k - 1) * batch_size + j]
                               /\ out[s][k][j] \in 0..(Len(dataset) - 1)
            /\ lenDone[s] => length[s] = NumDraws \div batch_size
            /\ (lenDone[s] /\ iterated[s]) => length[s] = Len(out[s])

\* C8 witness: batches were yielded, a shorter trailing group was dropped,
\* and len() has been called.
C8_Witness ==
    /\ batch_size >= 2
    /\ iterated["main"]
    /\ lenDone["main"]
    /\ Len(out["main"]) >= 1
    /\ NumDraws % batch_size # 0
    /\ length["main"] = Len(out["main"])

\* C9: iterating and len() leave the sampler's state alone, and two
\* iterations made under the same last set_epoch argument (by the same
\* object at different times, or by an object built anew from the same
\* arguments) yield the same batch sequence.
C9_SameEpochSameBatches ==
    /\ [](\A s, t \in Samplers :
            (iterated[s] /\ iterated[t] /\ outEpoch[s] = outEpoch[t]) =>
                (out[s] = out[t] /\ drawn[s] = drawn[t]))
    /\ [][requested' = requested =>
            UNCHANGED << epoch, seed, batch_size, duplicate, weights >>]_vars

\* C9 witness: the object under test was given an epoch other than the one
\* it was built with, iterated and asked its length; the new object was
\* iterated under the same epoch; and the epoch matters (another epoch seeds
\* another stream).
C9_Witness ==
    /\ iterated["main"]
    /\ iterated["fresh"]
    /\ lenDone["main"]
    /\ outEpoch["main"] # 0
    /\ outEpoch["main"] = outEpoch["fresh"]
    /\ out["main"] # << >>
    /\ \E e \in 0..MaxEpoch :
          Stream(manual_seed(e + seed), NumDraws)
              # Stream(manual_seed(epoch["main"] + seed), NumDraws)

\* C10: every sampler holds one weight per dataset index, with
\* weight[i] * count(label(i)) = |dataset|, and the weights of each class
\* present add up to |dataset|.
C10_InverseFrequencyWeights ==
    \A s \in Samplers :
        /\ Len(weights[s]) = Len(dataset)
        /\ \A i \in 1..Len(dataset) :
              /\ weights[s][i].den > 0
              /\ weights[s][i].num * Count(dataset, dataset[i])
                     = Len(dataset) * weights[s][i].den
        /\ \A c \in {dataset[i] : i \in 1..Len(dataset)} :
              LET total == ClassTotal(weights[s], dataset, c)
              IN  total.num = Len(dataset) * total.den

\* C10 witness: two classes of different sizes, after set_epoch, iteration
\* and len calls.
C10_Witness ==
    /\ Count(dataset, "A") > Count(dataset, "B")
    /\ Count(dataset, "B") > 0
    /\ requested["main"] # 0
    /\ iterated["main"]
    /\ lenDone["main"]

\* C11: no sampler object with batch_size <= 0 exists and is iterated:
\* the construction of one fails.
C11_BatchSizeRejected ==
    \A s \in Samplers : iterated[s] => batch_size >= 1

(***************************************************************************)
(* Properties of the distributed batch sampler wrapper.                    *)
(***************************************************************************)

\* Positions (from 0) of the wrapped sequence that belong to rank r.
PositionsOf(r) == {p \in 0..(Len(inner) - 1) : p % num_replicas = r}

\* C12: the wrapper of rank r yields exactly the batches of the wrapped
\* sequence at the positions p with p mod N = r, in order; once every rank
\* has been iterated, taking the batches round-robin in rank order gives the
\* wrapped sequence back, no position being yielded twice; with N = 1 the
\* wrapper of rank 0 yields the wrapped sequence unchanged.
C12_ShardsPartitionInOrder ==
    /\ \A r \in Ranks :
          shardDone[r] =>
              /\ Len(yielded[r]) = Cardinality(PositionsOf(r))
              /\ \A k \in 1..Len(yielded[r]) :
                     yielded[r][k] = inner[(k - 1) * num_replicas + r + 1]
    /\ (\A r \in Ranks : shardDone[r]) =>
          /\ \A p \in 0..(Len(inner) - 1) :
                 yielded[p % num_replicas][(p \div num_replicas) + 1]
                     = inner[p + 1]
          /\ Sum([i \in 1..num_replicas |-> Len(yielded[i - 1])]) = Len(inner)
    /\ (num_replicas = 1 /\ shardDone[0]) => yielded[0] = inner

\* C12 witness: several ranks, all iterated, over a sequence whose length
\* is no multiple of the number of ranks and that holds different batches.
C12_Witness ==
    /\ num_replicas >= 2
    /\ \A r \in Ranks : shardDone[r]
    /\ Len(inner) >= 3
    /\ Len(inner) % num_replicas # 0
    /\ \E i, j \in 1..Len(inner) : inner[i] # inner[j]

\* The configuration of train.py: one replica, rank 0.
C12_SingleReplica ==
    /\ num_replicas = 1
    /\ shardDone[0]
    /\ Len(inner) >= 2
    /\ yielded[0] = inner

(***************************************************************************)
(* Further properties of the training process.                             *)
(***************************************************************************)

\* The number of training steps of this launch whose result has been
\* appended to batch_results.
Cached ==
    IF pc \in {"zero_grad", "train_step", "update", "cache"}
    THEN global_step - 1 ELSE global_step

\* C13: every training step's result is either still in the buffer or has
\* been handed to train_reduction exactly once: the reduced results followed
\* by the buffered ones are the results of the steps 1..Cached, in order,
\* also when a pass over the train source ends inside a logging window.
C13_EveryResultReducedOnce ==
    pc \in LoopPcs =>
        reduced \o batch_results = [i \in 1..Cached |-> i]

\* The test block after the while loop.
Finalizing == pc = "test"

\* The process was terminated from outside.
Killed == pc = "stopped" /\ exit = "killed"

\* C14: the training loop never leaves the training cycle on its own: the
\* test pass is never entered, and from inside the loop the only way out is
\* the termination of the process from outside.
C14_LoopNeverExits ==
    /\ [](~Finalizing)
    /\ [][(pc \in LoopPcs) => (pc' \in LoopPcs \/ Killed')]_vars

\* C14: the loop is still training with more steps done than total_steps.
C14_Witness ==
    /\ pc \in LoopPcs
    /\ global_step > total_steps

\* C15: the train sampler's epoch is set before each pass over the train
\* source, so two successive passes of one launch run under different
\* epochs.
C15_EpochSetBeforeEachPass ==
    \A i \in 1..(Len(passEpochs) - 1) : passEpochs[i] # passEpochs[i + 1]

\* The eval cadence fires in this step of main().
EvalFires == pc = "eval" /\ pc' = "save" /\ Fires(global_step, eval_step)

Undeserializable == pc = "restore_task" /\ taskCkpt.exists /\ taskCkpt.corrupt

\* C17: when task.ckpt exists at startup and cannot be deserialized, the
\* run ends with the error before any training step: no task is built in
\* its place, no batch is pulled, and task.ckpt and optimizer.ckpt are left
\* as they were.
C17_CorruptCheckpointStops ==
    /\ [](exit = "error" =>
            /\ pc = "stopped"
            /\ task = NoTask
            /\ optimizer = NoOptimizer
            /\ global_step = 0
            /\ fetched = 0)
    /\ [][Undeserializable =>
            /\ pc' = "stopped"
            /\ exit' = "error" \/ Killed'
            /\ task' = NoTask
            /\ UNCHANGED << taskCkpt, optCkpt, global_step, fetched >>]_vars

\* C17 witness: a run has ended with the error on an unreadable task.ckpt,
\* with the optimizer.ckpt of the earlier run still beside it.
C17_Witness ==
    /\ exit = "error"
    /\ taskCkpt.corrupt
    /\ optCkpt.exists
    /\ run = 2

\* The place of each action of a training step in the body of the loop.
Rank(e) ==
    CASE e = "backward" -> 1
      [] e \in {"update", "skip"} -> 2
      [] e = "log" -> 3
      [] e = "eval" -> 4
      [] e = "save_task" -> 5
      [] e = "save_optimizer" -> 6

Done(e) == \E i \in 1..Len(events) : events[i] = e

\* task.ckpt holds what the current step of this launch wrote.
WrittenThisStep ==
    /\ pc \in LoopPcs
    /\ global_step >= 1
    /\ taskCkpt.exists
    /\ taskCkpt.run = run
    /\ taskCkpt.step = global_step

\* C18: the actions of one training step run in the order backward, update
\* (or skip), log, validate, checkpoint; a checkpoint is written only after
\* the update of its step has been applied or skipped, and after the log
\* and the validation pass of that step when their cadences fire too.
C18_FixedOrder ==
    /\ \A i, j \in 1..Len(events) :
            i < j => Rank(events[i]) < Rank(events[j])
    /\ WrittenThisStep => Done("save_task")
    /\ Done("save_optimizer") => Done("save_task")
    /\ Done("save_task") =>
            /\ Done("backward")
            /\ Done("update") \/ Done("skip")
            /\ Fires(global_step, log_step) => Done("log")
            /\ Fires(global_step, eval_step) => Done("eval")

\* C18 witness: all three cadences fired at a step whose update was
\* applied, and both checkpoint files have been written.
C18_Witness ==
    events = << "backward", "update", "log", "eval", "save_task",
                "save_optimizer" >>

\* C18 witness of the other case: a checkpoint written at a step whose
\* update was skipped.
C18_SkippedThenSaved ==
    Done("skip") /\ Done("save_task")

\* C19: the gradients are reset at the start of every training step, before
\* its forward/backward: the backward of step k starts from no gradient, and
\* the gradient that the NaN check and the update of step k use comes from
\* the batch of step k alone.
C19_GradientOfThisStepOnly ==
    /\ pc = "train_step" => (grad = "none" /\ gradFrom = {})
    /\ pc \in {"update"} \cup AfterUpdate => gradFrom = {global_step}

\* C19 witness: the step right after a NaN-skipped step had a finite
\* gradient and its update was applied.
C19_Witness ==
    /\ pc = "cache"
    /\ lastWarn >= 1
    /\ lastWarn = global_step - 1
    /\ grad = "finite"
    /\ task.params = before.params + 1

====
